---- MODULE Spec2Model ----
(***************************************************************************)
(* Model of the Nikola plug-in v7/podcast_rss/podcast_rss.py: the          *)
(* module-level enclosure helpers, GeneratePodcastRSS.gen_tasks (one doit  *)
(* task per language) and GeneratePodcastRSS.render_podcast_rss (the       *)
(* action of such a task).                                                 *)
(***************************************************************************)
EXTENDS Naturals, Sequences, FiniteSets

\* ------------------------------------------------------------------ bounds
MaxPosts == 3        \* longest site.posts
MaxFeedLength == 2   \* largest FEED_LENGTH
MaxCalls == 2        \* most calls of _enclosure in one behaviour
MaxSelectPosts == 7  \* longest post list of the selection specification
MaxSelectLength == 5 \* largest FEED_LENGTH of the selection specification

\* ------------------------------------------------- Python values, helpers
None == "None"
NoneCfg == [type |-> "NoneType"]     \* None where a dict may stand

\* truth value of a str-or-None, and of a dict-or-None
Truthy(v) == v # None /\ v # ""
TruthyDict(d) == d # NoneCfg /\ d # <<>>

\* Python's `a or b` on those
Or(a, b) == IF Truthy(a) THEN a ELSE b
OrDict(a, b) == IF TruthyDict(a) THEN a ELSE b

Range(s) == {s[k] : k \in 1..Len(s)}

Min(a, b) == IF a < b THEN a ELSE b

\* s[:n] of Python, n >= 0
Slice(s, n) == SubSeq(s, 1, Min(n, Len(s)))

RECURSIVE Concat(_)
Concat(ss) == IF ss = <<>> THEN <<>> ELSE Head(ss) \o Concat(Tail(ss))

\* ------------------------------------------------------- site configuration
LangOrder == <<"en", "de">>          \* iteration order of cfg["TRANSLATIONS"]
Langs == Range(LangOrder)
TRANSLATIONS == [en |-> "", de |-> "de"]
OUTPUT_FOLDER == "output"
PODCAST_RSS_PATH == "podcast.xml"
PODCAST_POST_CATEGORY == "podcast"
PODCAST_CHANNEL_TITLE == [en |-> None, de |-> "Der Podcast"]
BLOG_TITLE == [en |-> "My Blog", de |-> "Mein Blog"]
PODCAST_CHANNEL_LINK == None
SITE_URL == "https://example.com/"
BASE_URL == "https://example.com/"
PODCAST_CHANNEL_DESCRIPTION == [en |-> "About audio", de |-> None]
BLOG_DESCRIPTION == [en |-> "A blog", de |-> "Ein Blog"]
BLOG_AUTHOR == [en |-> "Site Author", de |-> "Autor"]
BLOG_EMAIL == "site@example.com"
\* a category hierarchy (joined with "/" for the category element); <<>> when unset
PODCAST_CHANNEL_CATEGORY == [en |-> <<"Arts", "Music">>, de |-> <<>>]
PODCAST_CHANNEL_LOGO == None
LOGO_URL == "https://example.com/logo.png"

\* the values PODCAST_CHANNEL_AUTHOR is drawn from: unset, or a dict with a
\* name, an email or both
AuthorOverrides ==
    {NoneCfg, [name |-> "Ann"], [email |-> "ann@example.com"],
     [name |-> "Ann", email |-> "ann@example.com"]}

\* ------------------------------------------------------------ the posts
PostPool == {"p1", "p2", "p3", "p4", "p5"}

\* post.meta[lang]['category'] of the pool's posts
PoolCategory ==
    [p \in PostPool |->
        [lang \in Langs |->
            CASE p = "p3" /\ lang = "de" -> "Podcast"
              [] p = "p5" /\ lang = "en" -> "blog"
              [] OTHER -> "podcast"]]

\* the category values of the selection specification's posts
Categories == {"podcast", "Podcast", "blog"}

\* post.meta('enclosure', lang)
EnclosureOf(p, lang) ==
    CASE p \in {"p1", "p2"} -> "a.mp3"
      [] p = "p4" -> "b.ogg"
      [] p = "p3" -> None
      [] OTHER -> ""

\* post.title(lang)
Title(p, lang) ==
    [p1 |-> [en |-> "Episode 1", de |-> "Folge 1"],
     p2 |-> [en |-> "Episode 2", de |-> "Folge 2"],
     p3 |-> [en |-> "Episode 3", de |-> "Folge 3"],
     p4 |-> [en |-> "Episode 4", de |-> "Folge 4"],
     p5 |-> [en |-> "Episode 5", de |-> "Folge 5"]][p][lang]

\* post.permalink(lang, absolute=True); p4 has none
Permalink(p, lang) ==
    [p1 |-> [en |-> "https://example.com/p1/", de |-> "https://example.com/de/p1/"],
     p2 |-> [en |-> "https://example.com/p2/", de |-> "https://example.com/de/p2/"],
     p3 |-> [en |-> "https://example.com/p3/", de |-> "https://example.com/de/p3/"],
     p4 |-> [en |-> None, de |-> None],
     p5 |-> [en |-> "https://example.com/p5/", de |-> "https://example.com/de/p5/"]][p][lang]

\* post.text(lang, ...), post.description(lang)
Text(p, lang) == <<"text", p, lang>>
Description(p, lang) == <<"description", p, lang>>

\* post.date.tzinfo is set; p5 carries a naive date
DateAware(p) == p # "p5"

\* post.author(lang), post.meta[lang].get('email')
PostAuthor(p, lang) == IF p = "p1" THEN "Bob" ELSE None
PostEmail(p, lang) == IF p = "p2" THEN "carol@example.com" ELSE None

\* post.deps(lang), post.deps_uptodate(lang): opaque tokens
Deps(p, lang) == << <<"src", p, lang>>, <<"meta", p>> >>
DepsUptodate(p, lang) == << <<"uptodate", p, lang>> >>

\* sequences without repetition over S, of length at most n
InjSeqs(S, n) ==
    UNION {{s \in [1..k -> S] : \A a, b \in 1..k : a # b => s[a] # s[b]} : k \in 0..n}

\* ------------------------------------------------------------------ state
VARIABLES
    posts,                  \* site.posts, in the content source's order
    category,               \* category[p][lang]: p.meta[lang]['category']
    FEED_LENGTH,            \* cfg['FEED_LENGTH']
    PODCAST_CHANNEL_AUTHOR, \* cfg['PODCAST_CHANNEL_AUTHOR']
    entry_order,            \* default `order` of the installed feedgen's add_entry
    gen_i,                  \* gen_tasks: 0 before the first yield, then the loop index
    yielded,                \* the tasks gen_tasks has yielded
    pc,                     \* pc[lang]: where the task's render_podcast_rss stands
    i,                      \* i[lang]: index of `for i, post in enumerate(posts)`
    fg,                     \* fg[lang]: the FeedGenerator of the render
    files,                  \* files[name]: the file at an output path
    encLog                  \* the calls of _enclosure made so far, with their outcome

vars == <<posts, category, FEED_LENGTH, PODCAST_CHANNEL_AUTHOR, entry_order, gen_i,
          yielded, pc, i, fg, files, encLog>>

inputs == <<posts, category, FEED_LENGTH, PODCAST_CHANNEL_AUTHOR, entry_order>>

\* ------------------------------------------------------- enclosure helpers
\* get_enclosure_size: the argument list of requests.head names `slug`, which
\* no scope defines, so evaluating it raises NameError before a request is made
get_enclosure_size(url) == [exc |-> "NameError", ret |-> None, lookups |-> <<url>>]

\* _enclosure without its `if enclosure:`
_enclosure_unguarded(post, lang) ==
    LET length == get_enclosure_size(EnclosureOf(post, lang)) IN
    [exc |-> length.exc, ret |-> NoneCfg, lookups |-> length.lookups]

\* _enclosure(post, lang): the outcome of one call; `lookups` lists the URLs
\* get_enclosure_size was called with
_enclosure(post, lang) ==
    LET enclosure == EnclosureOf(post, lang) IN
    IF Truthy(enclosure)
    THEN LET length == get_enclosure_size(enclosure) IN
         IF length.exc # None
         THEN [exc |-> length.exc, ret |-> NoneCfg, lookups |-> length.lookups]
         \* mimetypes is never imported
         ELSE [exc |-> "NameError", ret |-> NoneCfg, lookups |-> length.lookups]
    ELSE [exc |-> None, ret |-> NoneCfg, lookups |-> <<>>]

\* ---------------------------------------------------------------- paths
\* rss_path(name, lang)
rss_path(lang) == SelectSeq(<<TRANSLATIONS[lang], PODCAST_RSS_PATH>>, LAMBDA f : Truthy(f))

\* os.path.join(cfg['OUTPUT_FOLDER'], site.path("podcast_rss", None, lang))
output_name(lang) == <<OUTPUT_FOLDER>> \o rss_path(lang)

\* urljoin(cfg['BASE_URL'], site.link("podcast_rss", None, lang).lstrip('/'))
feed_url(lang) == <<BASE_URL>> \o rss_path(lang)

OutputNames == {output_name(lang) : lang \in Langs}

\* --------------------------------------------------------------- gen_tasks
\* the selection with the truncation applied to site.posts, before the filter
SelectPosts_truncated_first(all, cat, lang, category_, length) ==
    SelectSeq(Slice(all, length), LAMBDA p : cat[p][lang] = category_)

\* [p for p in site.posts if p.meta[lang]['category'] == cfg[...]][:cfg['FEED_LENGTH']]
SelectPosts(all, cat, lang, category_, length) ==
    Slice(SelectSeq(all, LAMBDA p : cat[p][lang] = category_), length)

\* the task dict with the dependencies of every post of the site
Task_all_posts(lang) ==
    LET sel == SelectPosts(posts, category, lang, PODCAST_POST_CATEGORY, FEED_LENGTH) IN
    [basename |-> "generate_podcast_rss",
     name |-> output_name(lang),
     file_dep |-> Concat([k \in 1..Len(posts) |-> Deps(posts[k], lang)]),
     targets |-> <<output_name(lang)>>,
     actions |-> [lang |-> lang, posts |-> sel, output_name |-> output_name(lang),
                  feed_url |-> feed_url(lang)],
     uptodate |-> Concat([k \in 1..Len(posts) |-> DepsUptodate(posts[k], lang)])]

\* the task dict of one language
Task(lang) ==
    LET sel == SelectPosts(posts, category, lang, PODCAST_POST_CATEGORY, FEED_LENGTH) IN
    [basename |-> "generate_podcast_rss",
     name |-> output_name(lang),
     file_dep |-> Concat([k \in 1..Len(sel) |-> Deps(sel[k], lang)]),
     targets |-> <<output_name(lang)>>,
     actions |-> [lang |-> lang, posts |-> sel, output_name |-> output_name(lang),
                  feed_url |-> feed_url(lang)],
     uptodate |-> Concat([k \in 1..Len(sel) |-> DepsUptodate(sel[k], lang)])]

\* self.group_task()
GroupTask == [basename |-> "generate_podcast_rss", name |-> None, actions |-> NoneCfg]

\* site.scan_posts(); yield self.group_task()
GenStart ==
    /\ gen_i = 0
    /\ gen_i' = 1
    /\ yielded' = Append(yielded, GroupTask)
    /\ UNCHANGED <<inputs, pc, i, fg, files, encLog>>

\* one turn of `for lang in cfg["TRANSLATIONS"]`
GenTask ==
    /\ gen_i \in 1..Len(LangOrder)
    /\ yielded' = Append(yielded, Task(LangOrder[gen_i]))
    /\ gen_i' = gen_i + 1
    /\ UNCHANGED <<inputs, pc, i, fg, files, encLog>>

GenDone == gen_i > Len(LangOrder)

\* the yielded task of a language
TaskOf(lang) ==
    CHOOSE t \in Range(yielded) : t.actions # NoneCfg /\ t.actions.lang = lang

\* ------------------------------------------------------ render_podcast_rss
NoFeed == [type |-> "NoneType"]

\* FeedGenerator.add_entry(): feedgen places the new entry by its `order`
\* argument, which the call leaves to the library's default
add_entry(entries, fe, order) ==
    IF order = "prepend" THEN <<fe>> \o entries ELSE Append(entries, fe)

\* the author with the keys an override lacks filled in from the site's
ChannelAuthor_merged(override, lang) ==
    LET site == [name |-> BLOG_AUTHOR[lang], email |-> BLOG_EMAIL] IN
    IF TruthyDict(override)
    THEN [k \in {"name", "email"} |-> IF k \in DOMAIN override THEN override[k] ELSE site[k]]
    ELSE site

\* cfg['PODCAST_CHANNEL_AUTHOR'] or dict(name=cfg['BLOG_AUTHOR'](lang), email=cfg['BLOG_EMAIL'])
ChannelAuthor(override, lang) ==
    OrDict(override, [name |-> BLOG_AUTHOR[lang], email |-> BLOG_EMAIL])

\* the FeedGenerator after the channel-level calls
Channel(lang, url) ==
    LET title == Or(PODCAST_CHANNEL_TITLE[lang], BLOG_TITLE[lang]) IN
    [id |-> url,
     title |-> title,
     links |-> << [href |-> <<Or(PODCAST_CHANNEL_LINK, SITE_URL)>>, rel |-> "alternate"],
                  [href |-> url, rel |-> "self"] >>,
     description |-> Or(PODCAST_CHANNEL_DESCRIPTION[lang], BLOG_DESCRIPTION[lang]),
     author |-> ChannelAuthor(PODCAST_CHANNEL_AUTHOR, lang),
     language |-> lang,
     category |-> PODCAST_CHANNEL_CATEGORY[lang],
     itunes_category |-> PODCAST_CHANNEL_CATEGORY[lang],
     icon |-> Or(PODCAST_CHANNEL_LOGO, LOGO_URL),
     logo |-> Or(PODCAST_CHANNEL_LOGO, LOGO_URL),
     entries |-> <<>>]

\* the entry of one post, as far as the loop body got: `raised` when
\* post.date is naive, since `site` is no name of render_podcast_rss
Entry(post, lang) ==
    LET author_name == PostAuthor(post, lang)
        author_email == PostEmail(post, lang)
        naive == ~DateAware(post)
    IN  [title |-> Title(post, lang),
         content |-> Text(post, lang),
         summary |-> Description(post, lang),
         link |-> Permalink(post, lang),
         published |-> IF naive THEN None ELSE "aware",
         author |-> IF ~naive /\ (Truthy(author_name) \/ Truthy(author_email))
                    THEN [name |-> author_name, email |-> author_email]
                    ELSE NoneCfg,
         enclosure |-> NoneCfg]

\* lines 142-166: a task's action starts once doit has loaded every task
RenderChannel(lang) ==
    /\ GenDone
    /\ pc[lang] = "pending"
    /\ fg' = [fg EXCEPT ![lang] = Channel(lang, TaskOf(lang).actions.feed_url)]
    /\ i' = [i EXCEPT ![lang] = 1]
    /\ pc' = [pc EXCEPT ![lang] = "entries"]
    /\ UNCHANGED <<inputs, gen_i, yielded, files, encLog>>

\* one turn of `for i, post in enumerate(posts)`
RenderEntry(lang) ==
    /\ pc[lang] = "entries"
    /\ i[lang] <= Len(TaskOf(lang).actions.posts)
    /\ LET post == TaskOf(lang).actions.posts[i[lang]]
           fe == Entry(post, lang)
       IN  /\ fg' = [fg EXCEPT ![lang].entries = add_entry(@, fe, entry_order)]
           /\ IF DateAware(post)
              THEN /\ i' = [i EXCEPT ![lang] = @ + 1]
                   /\ pc' = pc
              ELSE /\ i' = i
                   /\ pc' = [pc EXCEPT ![lang] = "failed"]   \* NameError: site
    /\ UNCHANGED <<inputs, gen_i, yielded, files, encLog>>

\* fg.rss_file(output_name, pretty=True) opens the target for writing
WriteOpen(lang) ==
    /\ pc[lang] = "entries"
    /\ i[lang] > Len(TaskOf(lang).actions.posts)
    /\ files' = [files EXCEPT ![TaskOf(lang).actions.output_name] = [state |-> "partial"]]
    /\ pc' = [pc EXCEPT ![lang] = "write"]
    /\ UNCHANGED <<inputs, gen_i, yielded, i, fg, encLog>>

\* ... and has written the whole document
WriteClose(lang) ==
    /\ pc[lang] = "write"
    /\ files' = [files EXCEPT ![TaskOf(lang).actions.output_name] =
                     [state |-> "complete", doc |-> fg[lang]]]
    /\ pc' = [pc EXCEPT ![lang] = "done"]
    /\ UNCHANGED <<inputs, gen_i, yielded, i, fg, encLog>>

\* the scheduler interrupts a running task (KeyboardInterrupt); nothing in
\* render_podcast_rss catches it
Cancel(lang) ==
    /\ pc[lang] \in {"entries", "write"}
    /\ pc' = [pc EXCEPT ![lang] = "cancelled"]
    /\ UNCHANGED <<inputs, gen_i, yielded, i, fg, files, encLog>>

\* a caller applies _enclosure to a post of the site
CallEnclosure(k, lang) ==
    /\ Cardinality(encLog) < MaxCalls
    /\ k \in 1..Len(posts)
    /\ LET r == _enclosure(posts[k], lang) IN
       encLog' = encLog \cup {[post |-> posts[k], lang |-> lang, exc |-> r.exc,
                               ret |-> r.ret, lookups |-> r.lookups]}
    /\ UNCHANGED <<inputs, gen_i, yielded, pc, i, fg, files>>

\* ------------------------------------------------------- specifications
InitState ==
    /\ gen_i = 0
    /\ yielded = <<>>
    /\ pc = [lang \in Langs |-> "pending"]
    /\ i = [lang \in Langs |-> 0]
    /\ fg = [lang \in Langs |-> NoFeed]
    /\ files = [n \in OutputNames |-> [state |-> "absent"]]
    /\ encLog = {}

Init ==
    /\ posts \in InjSeqs(PostPool, MaxPosts)
    /\ category = PoolCategory
    /\ FEED_LENGTH \in 0..MaxFeedLength
    /\ PODCAST_CHANNEL_AUTHOR \in AuthorOverrides
    /\ entry_order \in {"prepend", "append"}
    /\ InitState

Next ==
    \/ GenStart
    \/ GenTask
    \/ \E lang \in Langs : RenderChannel(lang)
    \/ \E lang \in Langs : RenderEntry(lang)
    \/ \E lang \in Langs : WriteOpen(lang)
    \/ \E lang \in Langs : WriteClose(lang)
    \/ \E lang \in Langs : Cancel(lang)

Spec == Init /\ [][Next]_vars

\* the enclosure helpers applied to the posts of a site while it is built
InitEnclosure ==
    /\ posts \in InjSeqs(PostPool, MaxPosts)
    /\ category = PoolCategory
    /\ FEED_LENGTH = MaxFeedLength
    /\ PODCAST_CHANNEL_AUTHOR = NoneCfg
    /\ entry_order = "prepend"
    /\ InitState

NextEnclosure ==
    \/ GenStart
    \/ GenTask
    \/ \E lang \in Langs : RenderChannel(lang)
    \/ \E lang \in Langs : RenderEntry(lang)
    \/ \E lang \in Langs : WriteOpen(lang)
    \/ \E lang \in Langs : WriteClose(lang)
    \/ \E k \in 1..MaxPosts, lang \in Langs : CallEnclosure(k, lang)

SpecEnclosure == InitEnclosure /\ [][NextEnclosure]_vars

\* gen_tasks alone, over longer post lists with arbitrary categories
InitSelect ==
    /\ \E n \in 0..MaxSelectPosts :
          /\ posts = [k \in 1..n |-> k]
          /\ category \in [1..n -> {[en |-> c, de |-> "podcast"] : c \in Categories}]
    /\ FEED_LENGTH \in 0..MaxSelectLength
    /\ PODCAST_CHANNEL_AUTHOR = NoneCfg
    /\ entry_order = "prepend"
    /\ InitState

NextSelect ==
    \/ GenStart
    \/ GenTask

SpecSelect == InitSelect /\ [][NextSelect]_vars

\* ------------------------------------------------------------- properties
Tasks == {t \in Range(yielded) : t.actions # NoneCfg}

\* the indices of site.posts whose category for lang is the podcast category
Matching(lang) == {k \in 1..Len(posts) : category[posts[k]][lang] = PODCAST_POST_CATEGORY}

\* the index of the j-th such post
NthMatch(lang, j) ==
    CHOOSE k \in Matching(lang) : Cardinality({m \in Matching(lang) : m < k}) = j - 1

\* how many episodes the selection of lang holds, and which
SelectedCount(lang) == Min(Cardinality(Matching(lang)), FEED_LENGTH)
Selected(lang) == {posts[NthMatch(lang, j)] : j \in 1..SelectedCount(lang)}

Doc(lang) == files[output_name(lang)]
Emitted(lang) == Doc(lang).state = "complete"
HasEnclosure(p, lang) == EnclosureOf(p, lang) # None /\ EnclosureOf(p, lang) # ""
URLs == {"a.mp3", "b.ogg"}

\* C1: a failing size lookup is never raised to the caller of the enclosure
\* helper, which still gets an enclosure of length 0, and the emitted entry of
\* an episode with an enclosure carries an enclosure of length 0.
C1_LookupFailureIsSoft ==
    /\ \A c \in encLog :
          /\ c.exc = None
          /\ HasEnclosure(c.post, c.lang) => (c.ret # NoneCfg /\ c.ret.length = 0)
    /\ \A lang \in Langs : Emitted(lang) =>
          \A k \in 1..Len(Doc(lang).doc.entries) :
             LET e == Doc(lang).doc.entries[k] IN
             \A p \in Range(posts) :
                (e.content = Text(p, lang) /\ HasEnclosure(p, lang))
                   => (e.enclosure # NoneCfg /\ e.enclosure.length = 0)

C3_RoundTrip ==
    \A lang \in Langs : Emitted(lang) =>
       LET doc == Doc(lang).doc IN
       /\ doc.title = (IF PODCAST_CHANNEL_TITLE[lang] # None
                       THEN PODCAST_CHANNEL_TITLE[lang] ELSE BLOG_TITLE[lang])
       /\ \E l \in 1..Len(doc.links) :
             doc.links[l].rel = "alternate" /\ doc.links[l].href = <<SITE_URL>>
       /\ \A p \in Selected(lang) :
             \E k \in 1..Len(doc.entries) :
                LET e == doc.entries[k] IN
                /\ e.title = Title(p, lang)
                /\ e.link = Permalink(p, lang)
                /\ HasEnclosure(p, lang) =>
                      (e.enclosure # NoneCfg /\ e.enclosure.url = EnclosureOf(p, lang))

\* C4: an episode without an enclosure reference gets no enclosure element in
\* any feed, and applying the enclosure helper to it returns nothing and
\* enters no size lookup.
C4_NoEnclosureNoLookup ==
    /\ \A lang \in Langs : fg[lang] # NoFeed =>
          \A k \in 1..Len(fg[lang].entries) :
             LET e == fg[lang].entries[k] IN
             \A p \in Range(posts) :
                (e.content = Text(p, lang) /\ ~HasEnclosure(p, lang))
                   => e.enclosure = NoneCfg
    /\ \A c \in encLog :
          ~HasEnclosure(c.post, c.lang)
             => (c.lookups = <<>> /\ c.ret = NoneCfg /\ c.exc = None)

C4_Witness ==
    /\ \E c \in encLog : c.post = "p3" /\ c.lang = "en"
    /\ \E c \in encLog : c.post = "p5" /\ c.lang = "de"
    /\ Emitted("en")
    /\ \E k \in 1..Len(Doc("en").doc.entries) :
          Doc("en").doc.entries[k].content = Text("p3", "en")

\* C5: the posts of a language's task are the posts of site.posts whose
\* category for the language is exactly the podcast category, in site.posts'
\* order, cut to the first FEED_LENGTH of them.
C5_Selection ==
    \A t \in Tasks :
       LET lang == t.actions.lang
           sel == t.actions.posts
       IN  /\ Len(sel) = SelectedCount(lang)
           /\ \A j \in 1..Len(sel) : sel[j] = posts[NthMatch(lang, j)]
           /\ Matching(lang) = {} => sel = <<>>

C5_Witness ==
    \E t \in Tasks :
       /\ t.actions.lang = "en"
       /\ Cardinality(Matching("en")) = 7
       /\ FEED_LENGTH = 5
       /\ t.actions.posts = <<1, 2, 3, 4, 5>>

\* C6: the entries of an emitted document are the selected episodes in the
\* selection's order, and there are at most FEED_LENGTH of them.
C6_EntryOrder ==
    \A lang \in Langs : Emitted(lang) =>
       LET es == Doc(lang).doc.entries
           sel == TaskOf(lang).actions.posts
       IN  /\ Len(es) <= FEED_LENGTH
           /\ Len(es) = Len(sel)
           /\ \A k \in 1..Len(es) : es[k].content = Text(sel[k], lang)

\* C7: a finished render has emitted a document with no entry for an episode
\* that lacks its title or its permalink.
C7_MalformedSkipped ==
    \A lang \in Langs : pc[lang] = "done" =>
       /\ Emitted(lang)
       /\ \A k \in 1..Len(Doc(lang).doc.entries) :
             /\ Doc(lang).doc.entries[k].title # None
             /\ Doc(lang).doc.entries[k].link # None

\* C8: when a render has failed or was cancelled, its target file does not
\* exist or holds a complete document.
C8_NoPartialDocument ==
    \A lang \in Langs : pc[lang] \in {"failed", "cancelled"} =>
       Doc(lang).state \in {"absent", "complete"}

\* C9: the channel author is the configured override exactly as given, and
\* the pair (site author, site email) only when no override is configured; a
\* key the override lacks is not filled in from the site's pair.
C9_AuthorFromOneSource ==
    \A lang \in Langs : fg[lang] # NoFeed =>
       LET a == fg[lang].author IN
       /\ PODCAST_CHANNEL_AUTHOR # NoneCfg =>
             /\ DOMAIN a = DOMAIN PODCAST_CHANNEL_AUTHOR
             /\ \A key \in DOMAIN a : a[key] = PODCAST_CHANNEL_AUTHOR[key]
       /\ PODCAST_CHANNEL_AUTHOR = NoneCfg =>
             /\ DOMAIN a = {"name", "email"}
             /\ a.name = BLOG_AUTHOR[lang]
             /\ a.email = BLOG_EMAIL
       /\ Emitted(lang) => Doc(lang).doc.author = a

C9_Witness ==
    /\ PODCAST_CHANNEL_AUTHOR = [name |-> "Ann"]
    /\ Emitted("de")
    /\ DOMAIN Doc("de").doc.author = {"name"}

\* C10: gen_tasks yields one task per language; a task's file_dep holds the
\* dependencies, and its uptodate the staleness tokens, of exactly the
\* episodes selected for its language, and none of another task's targets.
C10_Planning ==
    /\ GenDone =>
          \A lang \in Langs :
             Cardinality({k \in 1..Len(yielded) :
                             /\ yielded[k].actions # NoneCfg
                             /\ yielded[k].actions.lang = lang}) = 1
    /\ \A k \in 1..Len(yielded) :
          yielded[k].actions # NoneCfg => yielded[k].actions.lang = LangOrder[k - 1]
    /\ \A t \in Tasks :
          LET lang == t.actions.lang IN
          /\ Range(t.file_dep) = UNION {Range(Deps(p, lang)) : p \in Selected(lang)}
          /\ Range(t.uptodate) = UNION {Range(DepsUptodate(p, lang)) : p \in Selected(lang)}
          /\ \A p \in Range(posts) \ Selected(lang) :
                /\ Range(Deps(p, lang)) \cap Range(t.file_dep) = {}
                /\ Range(DepsUptodate(p, lang)) \cap Range(t.uptodate) = {}
          /\ \A u \in Tasks : Range(u.targets) \cap Range(t.file_dep) = {}

C10_Witness ==
    /\ GenDone
    /\ Selected("en") # {}
    /\ \E k \in Matching("en") : posts[k] \notin Selected("en")
    /\ \E k \in 1..Len(posts) : k \notin Matching("en")
    /\ Selected("de") # Selected("en")

====
